---------------------------- MODULE Spec2Model ----------------------------
(***************************************************************************)
(* PinPilot firmware (firmware/src/main.cpp): setup(), connectWiFi(),      *)
(* mqttReconnect() and loop() as one sequential process, with the WiFi     *)
(* station, the MQTT client's transport and the millisecond counter as     *)
(* the environment.  Every call into a collaborator is one step, so the    *)
(* environment can act between any two statements.                         *)
(***************************************************************************)
EXTENDS Integers, Sequences, FiniteSets, TLC

(***************************************************************************)
(* Program constants.                                                      *)
(***************************************************************************)
DEVICE_NAME == "pinpilot_device"
MQTT_HOST == "192.168.1.10"
MQTT_PORT == 1883
HEARTBEAT_MS == 5000
RETRY_MS == 2000
WIFI_POLL_MS == 300
BOOT_DELAY_MS == 200
EPAPER_SPI_2P13_CS == "EPAPER_SPI_2P13_CS"
WS2812_DIN == "WS2812_DIN"
OptionalPins == {EPAPER_SPI_2P13_CS, WS2812_DIN}

(***************************************************************************)
(* Bounds of the model.  MaxClock caps the milliseconds a run covers,      *)
(* MaxEvents the number of disturbances in it (a time step of a length in  *)
(* Steps taken while the firmware executes, or a loss of the broker        *)
(* connection) and MaxWifiPolls the number of times connectWiFi() finds    *)
(* the station not yet associated.                                         *)
(***************************************************************************)
MaxClock == 12500
MaxEvents == 2
MaxWifiPolls == 1
Steps == {1, HEARTBEAT_MS}

(***************************************************************************)
(* uint32_t arithmetic.  A value is a pair <<hi, lo>> of 16-bit limbs      *)
(* (hi * 2^16 + lo), so that subtraction wraps modulo 2^32 as in the C++.  *)
(***************************************************************************)
Base == 65536
U32Of(n) == <<(n \div Base) % Base, n % Base>>
U32Add(a, b) ==
  LET lo == a[2] + b[2]
  IN  <<(a[1] + b[1] + (lo \div Base)) % Base, lo % Base>>
U32Sub(a, b) ==
  LET lo == a[2] - b[2]
  IN  <<(a[1] - b[1] - (IF lo < 0 THEN 1 ELSE 0)) % Base, lo % Base>>
U32Gt(a, b) == a[1] > b[1] \/ (a[1] = b[1] /\ a[2] > b[2])
U32Ge(a, b) == a = b \/ U32Gt(a, b)

VARIABLES
  pc,          \* the statement the firmware executes next
  variant,     \* the optional pins pinmap.h defines for this build
  pins,        \* pin -> [mode, level] as left by pinMode/digitalWrite
  wifiMode,    \* WiFi.mode() argument, "OFF" before the call
  wifiBegun,   \* WiFi.begin() was called
  wifiUp,      \* the station is associated (WiFi.status() = WL_CONNECTED)
  wifiSeen,    \* connectWiFi() has observed WL_CONNECTED
  server,      \* mqtt.setServer() argument, <<>> before the call
  mqttUp,      \* what mqtt.connected() answers
  now,         \* what millis() answers (uint32)
  last,        \* loop()'s static uint32_t last
  clock,       \* milliseconds since boot covered so far
  events,      \* time steps and connection losses so far
  wifiPolls,   \* delay(300) rounds of connectWiFi() so far
  entryUp,     \* this iteration's mqtt.connected() at line 65: "none", "up", "down"
  rcState,     \* mqttReconnect() in this iteration: "none", "running", "returned"
  rcOk,        \* successful connects in the current/last mqttReconnect()
  rcFails,     \* failed connects in the current/last mqttReconnect()
  rcOnline,    \* status publishes in the current/last mqttReconnect()
  polled,      \* mqtt.loop() calls in this iteration
  checked,     \* line 69 was evaluated in this iteration
  tCheck,      \* millis() as read at line 69 of this iteration
  lastAtCheck, \* last as read at line 69 of this iteration
  hbIter,      \* heartbeat publishes in this iteration
  hbCount,     \* heartbeat publishes so far, counted up to 2
  hbPubAt,     \* millis() at the latest heartbeat publish
  hbGap,       \* time between the latest two heartbeat publishes, <<>> if fewer
  prevOp,      \* the MQTT client call before lastOp
  lastOp,      \* the latest MQTT client call, <<>> if none
  setClock,    \* clock when last was assigned (0: boot), -1 once 2^32 ms may have passed
  realAtCheck  \* milliseconds really elapsed since then at line 69, -1 if unknown

env == <<wifiUp, mqttUp, now, clock, events>>
prog == <<pc, pins, wifiMode, wifiBegun, wifiSeen, wifiPolls, server, last>>
iter == <<entryUp, rcState, polled, checked, tCheck, lastAtCheck, hbIter>>
rc == <<rcOk, rcFails, rcOnline>>
hb == <<hbCount, hbPubAt, hbGap>>
ops == <<prevOp, lastOp>>
wall == <<setClock, realAtCheck>>
vars == <<variant, env, prog, iter, rc, hb, ops, wall>>

Untouched == [mode |-> "unset", level |-> "unset"]

Init ==
  /\ pc = "setup_begin"
  /\ variant \in SUBSET OptionalPins
  /\ pins = [p \in OptionalPins |-> Untouched]
  /\ wifiMode = "OFF"
  /\ wifiBegun = FALSE
  /\ wifiUp = FALSE
  /\ wifiSeen = FALSE
  /\ server = <<>>
  /\ mqttUp = FALSE
  /\ now = U32Of(0)
  /\ last = U32Of(0)
  /\ clock = 0
  /\ events = 0
  /\ wifiPolls = 0
  /\ entryUp = "none"
  /\ rcState = "none"
  /\ rcOk = 0
  /\ rcFails = 0
  /\ rcOnline = 0
  /\ polled = 0
  /\ checked = FALSE
  /\ tCheck = U32Of(0)
  /\ lastAtCheck = U32Of(0)
  /\ hbIter = 0
  /\ hbCount = 0
  /\ hbPubAt = U32Of(0)
  /\ hbGap = <<>>
  /\ prevOp = <<>>
  /\ lastOp = <<>>
  /\ setClock = 0
  /\ realAtCheck = -1

(***************************************************************************)
(* delay(ms): the counter advances by ms while the firmware blocks.        *)
(***************************************************************************)
delay(ms) ==
  /\ clock + ms <= MaxClock
  /\ clock' = clock + ms
  /\ now' = U32Add(now, U32Of(ms))

(***************************************************************************)
(* A call into the MQTT client, recorded as the latest one.                *)
(***************************************************************************)
MqttCall(op) ==
  /\ prevOp' = lastOp
  /\ lastOp' = op

pinMode(p, pin, mode) == [p EXCEPT ![pin].mode = mode]
digitalWrite(p, pin, level) == [p EXCEPT ![pin].level = level]

(***************************************************************************)
(* setup()                                                                 *)
(***************************************************************************)
setup_begin ==
  /\ pc = "setup_begin"
  /\ delay(BOOT_DELAY_MS)
  /\ pc' = "setup_cs"
  /\ UNCHANGED <<variant, wall, wifiUp, mqttUp, events, wifiPolls, pins, wifiMode, wifiBegun,
                 wifiSeen, server, last, iter, rc, hb, ops>>

ConfigureCS(p) ==
  digitalWrite(pinMode(p, EPAPER_SPI_2P13_CS, "OUTPUT"), EPAPER_SPI_2P13_CS, "HIGH")

ConfigureDIN(p) ==
  digitalWrite(pinMode(p, WS2812_DIN, "OUTPUT"), WS2812_DIN, "LOW")

\* Mutant: the pin block is compiled in whether or not the pin is defined.
IfDef_Always(pin, v) == TRUE

\* #ifdef <pin>
IfDef(pin, v) == pin \in v

setup_cs ==
  /\ pc = "setup_cs"
  /\ pins' = IF IfDef(EPAPER_SPI_2P13_CS, variant) THEN ConfigureCS(pins) ELSE pins
  /\ pc' = "setup_din"
  /\ UNCHANGED <<variant, wall, env, wifiPolls, wifiMode, wifiBegun, wifiSeen, server, last,
                 iter, rc, hb, ops>>

setup_din ==
  /\ pc = "setup_din"
  /\ pins' = IF IfDef(WS2812_DIN, variant) THEN ConfigureDIN(pins) ELSE pins
  /\ pc' = "wifi_mode"
  /\ UNCHANGED <<variant, wall, env, wifiPolls, wifiMode, wifiBegun, wifiSeen, server, last,
                 iter, rc, hb, ops>>

(***************************************************************************)
(* connectWiFi()                                                           *)
(***************************************************************************)
wifi_mode ==
  /\ pc = "wifi_mode"
  /\ wifiMode' = "WIFI_STA"
  /\ pc' = "wifi_begin"
  /\ UNCHANGED <<variant, wall, env, wifiPolls, pins, wifiBegun, wifiSeen, server, last,
                 iter, rc, hb, ops>>

wifi_begin ==
  /\ pc = "wifi_begin"
  /\ wifiBegun' = TRUE
  /\ pc' = "wifi_status"
  /\ UNCHANGED <<variant, wall, env, wifiPolls, pins, wifiMode, wifiSeen, server, last,
                 iter, rc, hb, ops>>

\* Mutant: connectWiFi() does not wait for the association.
WiFiWaits_Never(up) == FALSE

\* while (WiFi.status() != WL_CONNECTED)
WiFiWaits(up) == ~up

wifi_status ==
  /\ pc = "wifi_status"
  /\ IF WiFiWaits(wifiUp)
       THEN pc' = "wifi_delay" /\ UNCHANGED wifiSeen
       ELSE pc' = "set_server" /\ wifiSeen' = wifiUp
  /\ UNCHANGED <<variant, wall, env, wifiPolls, pins, wifiMode, wifiBegun, server, last,
                 iter, rc, hb, ops>>

wifi_delay ==
  /\ pc = "wifi_delay"
  /\ wifiPolls < MaxWifiPolls
  /\ delay(WIFI_POLL_MS)
  /\ wifiPolls' = wifiPolls + 1
  /\ pc' = "wifi_status"
  /\ UNCHANGED <<variant, wall, wifiUp, mqttUp, events, pins, wifiMode, wifiBegun,
                 wifiSeen, server, last, iter, rc, hb, ops>>

set_server ==
  /\ pc = "set_server"
  /\ server' = <<MQTT_HOST, MQTT_PORT>>
  /\ pc' = "loop_connected"
  /\ UNCHANGED <<variant, wall, env, wifiPolls, pins, wifiMode, wifiBegun, wifiSeen, last,
                 iter, rc, hb, ops>>

(***************************************************************************)
(* mqttReconnect()                                                         *)
(***************************************************************************)
\* Mutant: the status publish carries the device name instead of "online".
StatusMessage_DeviceName == <<"pinpilot/status", DEVICE_NAME>>

StatusMessage == <<"pinpilot/status", "online">>
ConnectClientId == DEVICE_NAME

\* Mutant: mqttReconnect() returns without looking at the connection.
ReconnectLoops_Skip(up) == FALSE

\* Mutant: mqttReconnect() connects whatever the connection state.
ReconnectLoops_Always(up) == TRUE

\* Mutant: mqttReconnect() gives up after three failed attempts.
ReconnectLoops_MaxAttempts(up) == ~up /\ rcFails < 3

\* while (!mqtt.connected())
ReconnectLoops(up) == ~up

rc_connected ==
  /\ pc = "rc_connected"
  /\ IF ReconnectLoops(mqttUp)
       THEN pc' = "rc_connect" /\ UNCHANGED rcState
       ELSE pc' = "mqtt_loop" /\ rcState' = "returned"
  /\ UNCHANGED <<variant, wall, env, wifiPolls, pins, wifiMode, wifiBegun, wifiSeen, server,
                 last, entryUp, polled, checked, tCheck, lastAtCheck, hbIter,
                 rc, hb, ops>>

\* What mqtt.connect() can answer: it needs the network to succeed.
ConnectOutcomes(net) == IF net THEN BOOLEAN ELSE {FALSE}

\* Mutant: a failed connect is retried at once.
AfterConnect_NoWait(ok) == IF ok THEN "rc_publish" ELSE "rc_connected"

\* Mutant: a failed connect without network runs connectWiFi() again.
AfterConnect_Reassociate(ok) ==
  IF ok THEN "rc_publish" ELSE IF wifiUp THEN "rc_delay" ELSE "wifi_mode"

\* Mutant: a successful connect is not announced.
AfterConnect_NoPublish(ok) == IF ok THEN "rc_connected" ELSE "rc_delay"

\* if (mqtt.connect(DEVICE_NAME)) ... else ...
AfterConnect(ok) == IF ok THEN "rc_publish" ELSE "rc_delay"

rc_connect ==
  /\ pc = "rc_connect"
  /\ \E ok \in ConnectOutcomes(wifiUp) :
       /\ mqttUp' = ok
       /\ MqttCall(<<"connect", ConnectClientId, ok>>)
       /\ rcOk' = IF ok THEN rcOk + 1 ELSE rcOk
       /\ rcFails' = IF ok THEN rcFails ELSE rcFails + 1
       /\ pc' = AfterConnect(ok)
  /\ UNCHANGED <<variant, wall, wifiUp, now, clock, events, wifiPolls, pins, wifiMode,
                 wifiBegun, wifiSeen, server, last, iter, rcOnline, hb>>

\* Mutant: the status publish also restarts the heartbeat timer.
rc_publish_ResetsTimer ==
  /\ pc = "rc_publish"
  /\ MqttCall(<<"publish">> \o StatusMessage)
  /\ rcOnline' = rcOnline + 1
  /\ last' = now
  /\ pc' = "rc_connected"
  /\ UNCHANGED <<variant, wall, env, wifiPolls, pins, wifiMode, wifiBegun, wifiSeen,
                 server, iter, rcOk, rcFails, hb>>

rc_publish ==
  /\ pc = "rc_publish"
  /\ MqttCall(<<"publish">> \o StatusMessage)
  /\ rcOnline' = rcOnline + 1
  /\ pc' = "rc_connected"
  /\ UNCHANGED <<variant, wall, env, wifiPolls, pins, wifiMode, wifiBegun, wifiSeen, server,
                 last, iter, rcOk, rcFails, hb>>

rc_delay ==
  /\ pc = "rc_delay"
  /\ delay(RETRY_MS)
  /\ pc' = "rc_connected"
  /\ UNCHANGED <<variant, wall, wifiUp, mqttUp, events, wifiPolls, pins, wifiMode, wifiBegun,
                 wifiSeen, server, last, iter, rc, hb, ops>>

(***************************************************************************)
(* loop()                                                                  *)
(***************************************************************************)
HeartbeatMessage == <<"pinpilot/heartbeat", DEVICE_NAME>>

\* Mutant: loop() polls without reconnecting first.
CallsReconnect_Never(up) == FALSE

\* if (!mqtt.connected()) mqttReconnect();
CallsReconnect(up) == ~up

loop_connected ==
  /\ pc = "loop_connected"
  /\ entryUp' = IF mqttUp THEN "up" ELSE "down"
  /\ polled' = 0
  /\ checked' = FALSE
  /\ tCheck' = U32Of(0)
  /\ lastAtCheck' = U32Of(0)
  /\ realAtCheck' = -1
  /\ hbIter' = 0
  /\ IF CallsReconnect(mqttUp)
       THEN /\ pc' = "rc_connected"
            /\ rcState' = "running"
            /\ rcOk' = 0
            /\ rcFails' = 0
            /\ rcOnline' = 0
       ELSE /\ pc' = "mqtt_loop"
            /\ rcState' = "none"
            /\ UNCHANGED rc
  /\ UNCHANGED <<variant, setClock, env, wifiPolls, pins, wifiMode, wifiBegun, wifiSeen, server,
                 last, hb, ops>>

\* Mutant: the poll is the else branch of the connected check.
mqtt_loop_OnlyIfConnected ==
  /\ pc = "mqtt_loop"
  /\ IF rcState = "returned"
       THEN UNCHANGED <<ops, polled>>
       ELSE MqttCall(<<"loop">>) /\ polled' = polled + 1
  /\ pc' = "hb_check"
  /\ UNCHANGED <<variant, wall, env, wifiPolls, pins, wifiMode, wifiBegun, wifiSeen,
                 server, last, entryUp, rcState, checked, tCheck, lastAtCheck,
                 hbIter, rc, hb>>

mqtt_loop ==
  /\ pc = "mqtt_loop"
  /\ MqttCall(<<"loop">>)
  /\ polled' = polled + 1
  /\ pc' = "hb_check"
  /\ UNCHANGED <<variant, wall, env, wifiPolls, pins, wifiMode, wifiBegun, wifiSeen, server,
                 last, entryUp, rcState, checked, tCheck, lastAtCheck, hbIter,
                 rc, hb>>

\* Mutant: the deadline is computed by addition, which wraps.
HeartbeatDue_Deadline(t, l) == U32Gt(t, U32Add(l, U32Of(HEARTBEAT_MS)))

\* Mutant: the threshold is inclusive.
HeartbeatDue_Inclusive(t, l) == U32Ge(U32Sub(t, l), U32Of(HEARTBEAT_MS))

\* Mutant: the counter is compared without subtracting last.
HeartbeatDue_NoSub(t, l) == U32Gt(t, U32Of(HEARTBEAT_MS))

\* millis() - last > 5000, in uint32_t
HeartbeatDue(t, l) == U32Gt(U32Sub(t, l), U32Of(HEARTBEAT_MS))

hb_check ==
  /\ pc = "hb_check"
  /\ checked' = TRUE
  /\ tCheck' = now
  /\ lastAtCheck' = last
  /\ realAtCheck' = IF setClock < 0 THEN -1 ELSE clock - setClock
  /\ pc' = IF HeartbeatDue(now, last) THEN "hb_set" ELSE "loop_connected"
  /\ UNCHANGED <<variant, setClock, env, wifiPolls, pins, wifiMode, wifiBegun, wifiSeen, server,
                 last, entryUp, rcState, polled, hbIter, rc, hb, ops>>

\* Mutant: the timer is not restarted before the publish.
NextLast_Keep(t, l) == l

\* Mutant: the timer is advanced by one interval instead of being reset.
NextLast_CatchUp(t, l) == U32Add(l, U32Of(HEARTBEAT_MS))

\* last = millis();
NextLast(t, l) == t

hb_set ==
  /\ pc = "hb_set"
  /\ last' = NextLast(now, last)
  /\ setClock' = clock
  /\ pc' = "hb_publish"
  /\ UNCHANGED <<variant, realAtCheck, env, wifiPolls, pins, wifiMode, wifiBegun, wifiSeen, server,
                 iter, rc, hb, ops>>

hb_publish ==
  /\ pc = "hb_publish"
  /\ MqttCall(<<"publish">> \o HeartbeatMessage)
  /\ hbIter' = hbIter + 1
  /\ hbGap' = IF hbCount > 0 THEN U32Sub(now, hbPubAt) ELSE <<>>
  /\ hbPubAt' = now
  /\ hbCount' = IF hbCount < 2 THEN hbCount + 1 ELSE hbCount
  /\ pc' = "loop_connected"
  /\ UNCHANGED <<variant, wall, env, wifiPolls, pins, wifiMode, wifiBegun, wifiSeen, server,
                 last, entryUp, rcState, polled, checked, tCheck, lastAtCheck,
                 rc>>

(***************************************************************************)
(* The environment: the millisecond counter runs while the firmware        *)
(* executes, the station associates once begun and may lose the network,   *)
(* and the broker connection may be lost at any time.                      *)
(***************************************************************************)
Tick ==
  /\ events < MaxEvents
  /\ \E d \in Steps : delay(d)
  /\ events' = events + 1
  /\ UNCHANGED <<variant, wall, wifiUp, mqttUp, prog, iter, rc, hb, ops>>

WiFiAssociate ==
  /\ wifiBegun
  /\ ~wifiUp
  /\ wifiUp' = TRUE
  /\ UNCHANGED <<variant, wall, mqttUp, now, clock, events, prog, iter, rc, hb, ops>>

WiFiDrop ==
  /\ wifiUp
  /\ wifiUp' = FALSE
  /\ UNCHANGED <<variant, wall, mqttUp, now, clock, events, prog, iter, rc, hb, ops>>

MqttDrop ==
  /\ mqttUp
  /\ events < MaxEvents
  /\ mqttUp' = FALSE
  /\ events' = events + 1
  /\ UNCHANGED <<variant, wall, wifiUp, now, clock, prog, iter, rc, hb, ops>>

(***************************************************************************)
(* A broker outage that lasts until the counter is about to wrap:          *)
(* mqttReconnect() goes round its loop (check, failed connect, delay(2000))*)
(* OutageRounds times, the largest number of rounds that fits in 2^32 ms,  *)
(* and is back at its check with the counter WrapRemainder ms short of a   *)
(* full turn.  It is followed from the entry of mqttReconnect(), in the    *)
(* first minute of uptime and before the first heartbeat, and is outside   *)
(* the clock budget of the run.                                            *)
(***************************************************************************)
WrapRemainder == ((Base % RETRY_MS) * (Base % RETRY_MS)) % RETRY_MS
OutageRounds == ((Base \div 16) * Base) \div (RETRY_MS \div 16)
LongOutageMs == U32Sub(U32Of(0), U32Of(WrapRemainder))

LongOutage ==
  /\ pc = "rc_connected"
  /\ ~mqttUp
  /\ rcOk = 0
  /\ rcFails = 0
  /\ hbCount = 0
  /\ now[1] = 0
  /\ now' = U32Add(now, LongOutageMs)
  /\ rcFails' = rcFails + OutageRounds
  /\ prevOp' = <<"connect", ConnectClientId, FALSE>>
  /\ lastOp' = <<"connect", ConnectClientId, FALSE>>
  /\ setClock' = -1
  /\ UNCHANGED <<variant, wifiUp, mqttUp, clock, events, prog, iter, rcOk,
                 rcOnline, hb, realAtCheck>>

Firmware ==
  \/ setup_begin
  \/ setup_cs
  \/ setup_din
  \/ wifi_mode
  \/ wifi_begin
  \/ wifi_status
  \/ wifi_delay
  \/ set_server
  \/ loop_connected
  \/ rc_connected
  \/ rc_connect
  \/ rc_publish
  \/ rc_delay
  \/ mqtt_loop
  \/ hb_check
  \/ hb_set
  \/ hb_publish

Environment ==
  \/ Tick
  \/ WiFiAssociate
  \/ WiFiDrop
  \/ MqttDrop

Next == Firmware \/ Environment

Spec == Init /\ [][Next]_vars

\* The firmware is the only thread: it always takes its next step.
FairSpec == Spec /\ WF_vars(Firmware)

\* The runs of Spec, and those in which the counter comes to wrap.
WrapNext == Next \/ LongOutage
WrapSpec == Init /\ [][WrapNext]_vars

TypeOK ==
  /\ pc \in {"setup_begin", "setup_cs", "setup_din", "wifi_mode", "wifi_begin",
             "wifi_status", "wifi_delay", "set_server", "loop_connected",
             "rc_connected", "rc_connect", "rc_publish", "rc_delay",
             "mqtt_loop", "hb_check", "hb_set", "hb_publish"}
  /\ variant \subseteq OptionalPins
  /\ clock \in 0..MaxClock
  /\ events \in 0..MaxEvents
  /\ now = U32Of(clock)
  /\ setClock \in 0..clock
  /\ realAtCheck \in -1..clock

(***************************************************************************)
(* Properties.  An iteration of loop() is complete when control is back at *)
(* line 65 after line 69 was evaluated; tCheck, lastAtCheck and hbIter     *)
(* then describe that iteration.                                           *)
(***************************************************************************)
IterDone == pc = "loop_connected" /\ checked
ElapsedAtCheck == U32Sub(tCheck, lastAtCheck)
InReconnect == pc \in {"rc_connected", "rc_connect", "rc_publish", "rc_delay"}
InSetup == pc \in {"setup_begin", "setup_cs", "setup_din", "wifi_mode",
                   "wifi_begin", "wifi_status", "wifi_delay", "set_server"}
AfterPoll == pc \in {"hb_check", "hb_set", "hb_publish"}

\* C1 as stated: an iteration whose elapsed time is >= 5000 ms, exactly
\* 5000 ms included, publishes exactly one heartbeat and resets last.
C1_AtLeastThreshold ==
  (IterDone /\ U32Ge(ElapsedAtCheck, U32Of(5000)))
    => (hbIter = 1 /\ last # lastAtCheck)

\* C1 amended: an iteration whose elapsed time is more than 5000 ms
\* publishes exactly one heartbeat and sets last to the counter value read
\* after the comparison (no earlier than the compared value, no later than
\* the present); at exactly 5000 ms it publishes none and keeps last.
\* (Counter values are compared modulo 2^32, as the code computes them.)
C1_AboveThreshold ==
  IterDone =>
    /\ U32Gt(ElapsedAtCheck, U32Of(5000)) =>
         /\ hbIter = 1
         /\ U32Ge(U32Sub(now, tCheck), U32Sub(last, tCheck))
    /\ ElapsedAtCheck = U32Of(5000) => (hbIter = 0 /\ last = lastAtCheck)

C1_Witness ==
  /\ IterDone
  /\ ElapsedAtCheck = U32Of(5001)
  /\ hbIter = 1
  /\ last = tCheck

\* C2 as stated: a mqttReconnect() that returned has published "online"
\* exactly once.
C2_ExactlyOneOnline == rcState = "returned" => rcOnline = 1

\* C2 amended: a mqttReconnect() that returned has published "online" once
\* per successful connect of that invocation, at least once; inside the
\* invocation the publish of the latest success is the only one pending.
C2_OnlinePerConnect ==
  /\ rcState = "returned" => (rcOnline = rcOk /\ rcOk >= 1)
  /\ rcState = "running" =>
       rcOnline = (IF pc = "rc_publish" THEN rcOk - 1 ELSE rcOk)

C2_Witness ==
  /\ rcState = "returned"
  /\ rcOnline = 2
  /\ rcFails >= 1
  /\ mqttUp

\* C3: in an iteration that found the client disconnected at line 65,
\* mqttReconnect() was called and has returned before mqtt.loop() and before
\* any heartbeat publish; while it runs, neither has happened.
C3_ReconnectFirst ==
  /\ (entryUp = "down" /\ (pc = "mqtt_loop" \/ AfterPoll \/ polled > 0 \/ hbIter > 0))
       => rcState = "returned"
  /\ (entryUp = "down" /\ rcState # "returned")
       => (InReconnect /\ polled = 0 /\ hbIter = 0)

C3_Witness ==
  /\ entryUp = "down"
  /\ rcState = "returned"
  /\ polled = 1
  /\ hbIter = 1

\* C4: an iteration whose elapsed time is below 5000 ms publishes no
\* heartbeat and leaves last unchanged.
C4_BelowThreshold ==
  (IterDone /\ ~U32Ge(ElapsedAtCheck, U32Of(5000)))
    => (hbIter = 0 /\ last = lastAtCheck)

C4_Witness ==
  /\ IterDone
  /\ hbCount >= 1
  /\ ElapsedAtCheck = U32Of(1)
  /\ hbIter = 0

\* C5 as stated: two consecutive heartbeat publishes are at least 5000 ms
\* apart.
C5_PublishesApart == hbGap # <<>> => U32Ge(hbGap, U32Of(5000))

\* C5 amended: at most one heartbeat per iteration; a heartbeat is
\* published only after a check that found more than 5000 ms elapsed since
\* the timestamp stored before, and the timestamp stored for it is the
\* counter value read at or after that check (not the previous one plus the
\* interval), so stored timestamps are more than 5000 ms apart and no burst
\* follows a long blocking reconnect.
C5_TimestampsApart ==
  /\ hbIter <= 1
  /\ (pc \in {"hb_set", "hb_publish"} \/ hbIter = 1) =>
       U32Gt(ElapsedAtCheck, U32Of(5000))
  /\ (pc = "hb_publish" \/ hbIter = 1) =>
       /\ U32Gt(U32Sub(last, lastAtCheck), U32Of(5000))
       /\ U32Ge(U32Sub(last, lastAtCheck), ElapsedAtCheck)
       /\ U32Ge(U32Sub(now, lastAtCheck), U32Sub(last, lastAtCheck))

C5_Witness ==
  /\ IterDone
  /\ hbIter = 1
  /\ rcFails >= 5
  /\ U32Ge(ElapsedAtCheck, U32Of(10000))

\* C6: last changes only in the heartbeat branch of loop(), in the step
\* before the heartbeat publish; connection loss, mqttReconnect() and
\* mqtt.loop() leave it unchanged.
C6_OnlyHeartbeatSetsLast ==
  [][last' # last => (pc = "hb_set" /\ pc' = "hb_publish" /\ last' = now)]_vars

C6_Witness ==
  /\ pc = "hb_check"
  /\ hbCount = 1
  /\ entryUp = "down"
  /\ rcState = "returned"
  /\ rcFails >= 1
  /\ rcOnline >= 1
  /\ last = hbPubAt
  /\ now # last

\* C7: mqttReconnect() has no attempt limit: it leaves its loop only on
\* observing the client connected, which needs a successful connect of this
\* invocation; a failed connect is followed by the wait and the next check,
\* a check that finds the client disconnected by the next connect, and a
\* check that finds it connected by the return.
C7_RetryUntilConnected ==
  [][/\ (rcState = "running" /\ rcState' # "running")
          => (pc = "rc_connected" /\ mqttUp /\ rcOk >= 1 /\ rcState' = "returned")
     /\ (pc = "rc_connected" /\ pc' # pc)
          => (IF mqttUp THEN rcState' = "returned" ELSE pc' = "rc_connect")
     /\ (pc = "rc_connect" /\ pc' # pc /\ ~mqttUp')
          => (pc' = "rc_delay" /\ rcFails' = rcFails + 1)
     /\ (pc = "rc_delay" /\ pc' # pc) => pc' = "rc_connected"]_vars

\* C7, progress, under the fairness of the single firmware thread:
\* once a connect has succeeded and the client reports connected at the
\* next check, mqttReconnect() returns.
C7_ReturnsWhenConnected ==
  (pc = "rc_connected" /\ rcState = "running" /\ mqttUp)
    ~> (rcState = "returned" \/ ~mqttUp)

C7_NoAttemptLimit == C7_RetryUntilConnected /\ C7_ReturnsWhenConnected

C7_Witness ==
  /\ rcState = "returned"
  /\ rcFails >= 5
  /\ rcOk = 1

\* C8: setup() configures the pins, then waits for the station to be
\* associated, then configures the MQTT client: no WiFi call is made before
\* the pin blocks are passed, the client is not configured or used before
\* connectWiFi() has observed WL_CONNECTED, and setup() does not return
\* before that.
C8_SetupOrder ==
  /\ (wifiMode # "OFF" \/ wifiBegun)
       => pc \notin {"setup_begin", "setup_cs", "setup_din"}
  /\ (server # <<>> \/ lastOp # <<>> \/ pc = "set_server" \/ ~InSetup)
       => wifiSeen
  /\ ~InSetup => server = <<MQTT_HOST, MQTT_PORT>>

C8_Witness ==
  /\ pc = "loop_connected"
  /\ wifiSeen
  /\ wifiPolls >= 1
  /\ server # <<>>
  /\ lastOp = <<>>

\* C9: every publish is ("pinpilot/status", "online") or
\* ("pinpilot/heartbeat", device name); a status publish directly follows a
\* successful connect; every connect uses the device name as client ID.
IsPublish(op) == op # <<>> /\ op[1] = "publish"
IsConnect(op) == op # <<>> /\ op[1] = "connect"
C9_Publishes ==
  /\ \A op \in {prevOp, lastOp} :
       /\ IsPublish(op) =>
            <<op[2], op[3]>> \in {<<"pinpilot/status", "online">>,
                                  <<"pinpilot/heartbeat", "pinpilot_device">>}
       /\ IsConnect(op) => op[2] = "pinpilot_device"
  /\ (IsPublish(lastOp) /\ lastOp[2] = "pinpilot/status")
       => prevOp = <<"connect", "pinpilot_device", TRUE>>
  /\ pc = "rc_publish" => lastOp = <<"connect", "pinpilot_device", TRUE>>

C9_Witness ==
  /\ lastOp = <<"publish", "pinpilot/status", "online">>
  /\ hbCount >= 1
  /\ hbIter = 0

\* C10: setup() touches exactly the optional pins the build defines: a
\* defined pin ends as an output at its idle level (chip select HIGH, LED
\* data LOW), an undefined one is never touched, and setup() goes on to the
\* network association whatever the subset.
IdleLevel(p) == IF p = "EPAPER_SPI_2P13_CS" THEN "HIGH" ELSE "LOW"
C10_OptionalPins ==
  /\ \A p \in OptionalPins :
       /\ p \notin variant => pins[p] = Untouched
       /\ pins[p] # Untouched => pins[p] = [mode |-> "OUTPUT", level |-> IdleLevel(p)]
  /\ pc \notin {"setup_begin", "setup_cs", "setup_din"} =>
       \A p \in variant : pins[p] = [mode |-> "OUTPUT", level |-> IdleLevel(p)]

C10_Witness ==
  /\ variant = {"WS2812_DIN"}
  /\ wifiBegun
  /\ pins["EPAPER_SPI_2P13_CS"] = Untouched
  /\ pins["WS2812_DIN"] = [mode |-> "OUTPUT", level |-> "LOW"]

\* C11 as stated: the heartbeat is published first and last updated
\* afterwards, with the counter value that was compared at line 69.
C11_PublishThenUpdate ==
  /\ pc = "hb_publish" => last = lastAtCheck
  /\ (IterDone /\ hbIter = 1) => last = tCheck

\* C11 amended: last is updated first (line 70), from a second read of the
\* counter that is no earlier than the compared value, and the heartbeat is
\* published afterwards (line 71) with last already updated.
C11_UpdateThenPublish ==
  /\ pc = "hb_set" => (hbIter = 0 /\ last = lastAtCheck)
  /\ pc = "hb_publish" =>
       /\ hbIter = 0
       /\ last # lastAtCheck
       /\ U32Ge(U32Sub(now, tCheck), U32Sub(last, tCheck))
  /\ (IterDone /\ hbIter = 1) =>
       /\ last # lastAtCheck
       /\ U32Ge(U32Sub(now, tCheck), U32Sub(last, tCheck))

C11_Witness ==
  /\ pc = "hb_publish"
  /\ hbIter = 0
  /\ last = U32Add(tCheck, U32Of(1))
  /\ now = last

\* C12: every iteration calls mqtt.loop() exactly once, after the connected
\* check and mqttReconnect() and before the heartbeat decision, with or
\* without a reconnect or a heartbeat; never inside mqttReconnect().
C12_PollOncePerIteration ==
  /\ polled <= 1
  /\ InReconnect => (polled = 0 /\ rcState = "running")
  /\ pc = "mqtt_loop" =>
       (polled = 0 /\ ~checked /\ entryUp # "none" /\ rcState # "running")
  /\ AfterPoll => polled = 1
  /\ checked => polled = 1
  /\ (InReconnect /\ rcOk + rcFails > 0) => lastOp # <<"loop">>

C12_Witness ==
  /\ IterDone
  /\ polled = 1
  /\ rcState = "returned"
  /\ rcFails >= 1
  /\ hbIter = 0

\* C13: in mqttReconnect() a failed connect is followed by delay(2000),
\* always the same 2000 ms, before the next check; a successful connect is
\* followed by the status publish and the next check with no wait.
C13_FixedRetryDelay ==
  [][/\ (pc = "rc_connect" /\ pc' # pc) =>
          /\ now' = now
          /\ pc' = (IF mqttUp' THEN "rc_publish" ELSE "rc_delay")
     /\ (pc = "rc_delay" /\ pc' # pc) =>
          (pc' = "rc_connected" /\ now' = U32Add(now, U32Of(2000)))
     /\ (pc = "rc_publish" /\ pc' # pc) =>
          (pc' = "rc_connected" /\ now' = now)
     /\ (pc' = "rc_connected" /\ pc' # pc) =>
          pc \in {"loop_connected", "rc_publish", "rc_delay"}]_vars

C13_Witness ==
  /\ pc = "rc_connected"
  /\ rcState = "running"
  /\ rcFails = 2
  /\ rcOk = 0
  /\ now = U32Of(4200)

\* C14: the WiFi calls (mode, begin, status) are made in setup() only, begin
\* exactly once: once loop() runs, control never returns to connectWiFi()
\* and nothing connectWiFi() sets changes, also when the network is lost.
C14_AssociateOnce ==
  [][/\ ~InSetup => (~InSetup' /\ UNCHANGED <<wifiMode, wifiBegun, wifiSeen, wifiPolls>>)
     /\ wifiBegun => (wifiBegun' /\ pc' \notin {"wifi_mode", "wifi_begin"})
     /\ (pc' \in {"wifi_mode", "wifi_begin", "wifi_status", "wifi_delay"} /\ pc' # pc)
          => pc \in {"setup_din", "wifi_mode", "wifi_begin", "wifi_status", "wifi_delay"}]_vars

C14_Witness ==
  /\ ~wifiUp
  /\ wifiSeen
  /\ pc = "rc_delay"
  /\ rcFails >= 2
  /\ hbCount >= 1

\* C15 as stated: a heartbeat is published, and last reset, only while the
\* client is connected.
C15_OnlyWhileConnected ==
  [][(hbIter' = hbIter + 1 \/ last' # last) => mqttUp]_vars

\* C15 amended: a heartbeat is published, and last reset, only after the
\* poll of an iteration that found the client connected at line 65 or whose
\* mqttReconnect() returned after a successful connect; the connection is
\* not looked at again, so both also happen when it was lost since.
C15_OnlyAfterConnectedCheck ==
  [][(hbIter' = hbIter + 1 \/ last' # last) =>
       /\ polled = 1
       /\ entryUp = "up" \/ (rcState = "returned" /\ rcOk >= 1)]_vars

C15_Witness ==
  /\ pc = "hb_publish"
  /\ ~mqttUp
  /\ entryUp = "up"
  /\ polled = 1

\* C16: mqttReconnect() starts with no attempt made, calls connect only
\* right after a check that found the client disconnected, does nothing
\* but return after a check that found it connected, and returns nowhere
\* else.
C16_ConnectOnlyWhenDisconnected ==
  [][/\ (pc' = "rc_connect" /\ pc' # pc) => (pc = "rc_connected" /\ ~mqttUp)
     /\ (lastOp' # lastOp /\ lastOp'[1] = "connect") => (pc = "rc_connect" \/ pc = "rc_connected")
     /\ (pc = "rc_connected" /\ mqttUp /\ pc' # pc) =>
          (rcState' = "returned" /\ pc' = "mqtt_loop" /\ UNCHANGED <<ops, rc>>)
     /\ (rcState = "running" /\ rcState' # "running") =>
          (pc = "rc_connected" /\ mqttUp /\ rcState' = "returned")
     /\ (pc = "loop_connected" /\ pc' = "rc_connected") =>
          (~mqttUp /\ rcOk' = 0 /\ rcFails' = 0 /\ rcOnline' = 0)]_vars

C16_Witness ==
  /\ pc = "mqtt_loop"
  /\ rcState = "returned"
  /\ rcOk = 1
  /\ rcFails = 0
  /\ rcOnline = 1
  /\ mqttUp

\* C17: with less than 2^32 ms really elapsed since last was assigned, the
\* iteration publishes a heartbeat exactly when more than 5000 ms really
\* elapsed, also when the counter wrapped in between.
C17_WrapSafe ==
  (IterDone /\ realAtCheck >= 0) => (hbIter = 1 <=> realAtCheck > 5000)

C17_Witness ==
  /\ IterDone
  /\ hbIter = 1
  /\ realAtCheck = 5001
  /\ U32Gt(lastAtCheck, tCheck)

====
